---- MODULE Spec2Model ----
(***************************************************************************)
(* Nearest-point benchmark scripts (2d-distance-compare.py and             *)
(* 3d-distance-compare.py): the data generators, the linear-scan distance  *)
(* strategies, the timing harness with its statistics, and the reporting   *)
(* loop of each script.                                                    *)
(*                                                                         *)
(* Numbers.  Coordinates and clock ticks are integers: the representable   *)
(* values of the number format on a coarse grid.  Sums, differences and    *)
(* products of grid values are exact.  math.sqrt returns the representable *)
(* value nearest to the real root (Sqrt below), so it is monotone but not  *)
(* injective, exactly as the correctly rounded double-precision root is.   *)
(* Statistics are exact rationals [num, den] in lowest terms.              *)
(***************************************************************************)
EXTENDS Integers, Sequences, FiniteSets

VARIABLES script, pc, num_runs, num_points, size_idx, sources, target,
          method_idx, times, results, stats, report, error

vars == <<script, pc, num_runs, num_points, size_idx, sources, target,
          method_idx, times, results, stats, report, error>>

-----------------------------------------------------------------------------
(* Bounds of the model *)

\* coordinates range over 0..CoordMax (the interval of random.uniform)
CoordMax == 2
\* largest num_points handed to a generator in the direct-call specification
MaxPoints == 2
\* largest num_runs handed to the harness
MaxRuns == 2

Coords == 0..CoordMax
\* the target coordinate: the midpoint of the interval
Mid == CoordMax \div 2
\* the coordinates drawn while a whole script runs: the target's cell and
\* its upper neighbour
NearCoords == {Mid, Mid + 1}
\* one elapsed time, end_time - start_time of a monotonic clock: the clock
\* either did not advance between the two readings, or advanced one tick
Ticks == {0, 1}
\* dataset_sizes, scaled down; two sizes make the loop go round
dataset_sizes == <<1, 2>>

-----------------------------------------------------------------------------
(* Values *)

\* float('inf'): a value above every distance the grid can give
Inf == 1000000
\* None
None == <<>>

\* a comparison that also replaces the best on an equal value
LessOrEqual(a, b) == a <= b
\* dist < min_dist
Less(a, b) == a < b

\* abs() without the sign test: a scan that forgets abs()
AbsDropped(x) == x
Abs(x) == IF x < 0 THEN 0 - x ELSE x

\* math.sqrt: the representable value nearest to the real root of n
Sqrt(n) ==
    CHOOSE r \in 0..n : /\ (r = 0 \/ (2 * r - 1) * (2 * r - 1) <= 4 * n)
                        /\ 4 * n < (2 * r + 1) * (2 * r + 1)

-----------------------------------------------------------------------------
(* Data generators *)

\* len(range(num_points)) with the count negated wrongly accepted
range_len_abs(n) == IF n < 0 THEN 0 - n ELSE n
\* len(range(num_points)): a count below 1 gives no iteration
range_len(n) == IF n < 0 THEN 0 ELSE n

\* generate_test_data: every list the random draws can give, coordinates
\* drawn from C, and the fixed target
generate_test_data(n, C) ==
    [sources : [1..range_len(n) -> C \X C], target : {<<Mid, Mid>>}]

\* generate_3d_test_data
generate_3d_test_data(n, C) ==
    [sources : [1..range_len(n) -> C \X C \X C], target : {<<Mid, Mid, Mid>>}]

\* the generator of each script
Generate(sc, n, C) ==
    IF sc = "2d" THEN generate_test_data(n, C) ELSE generate_3d_test_data(n, C)

-----------------------------------------------------------------------------
(* Distance strategies *)

\* the value each strategy computes for one point
Dist(method, p, t) ==
    CASE method = "find_closest_with_sqrt" ->
           LET dx == p[1] - t[1]
               dy == p[2] - t[2]
           IN  Sqrt(dx * dx + dy * dy)
      [] method = "find_closest_with_squared" ->
           LET dx == p[1] - t[1]
               dy == p[2] - t[2]
           IN  dx * dx + dy * dy
      [] method = "find_closest_3d_with_sqrt" ->
           LET dx == p[1] - t[1]
               dy == p[2] - t[2]
               dz == p[3] - t[3]
           IN  Sqrt(dx * dx + dy * dy + dz * dz)
      [] method = "find_closest_3d_with_squared" ->
           LET dx == p[1] - t[1]
               dy == p[2] - t[2]
               dz == p[3] - t[3]
           IN  dx * dx + dy * dy + dz * dz
      [] method = "find_closest_3d_with_manhattan" ->
           Abs(p[1] - t[1]) + Abs(p[2] - t[2]) + Abs(p[3] - t[3])

\* min_dist = float('inf'); closest_point = None
InitialBest == [point |-> None, value |-> Inf]

\* the for loop from the i-th point on, best being (closest_point, min_dist)
RECURSIVE ScanFrom(_, _, _, _, _)
ScanFrom(method, s, t, i, best) ==
    IF i > Len(s)
    THEN best
    ELSE LET dist == Dist(method, s[i], t)
         IN  ScanFrom(method, s, t, i + 1,
                      IF Less(dist, best.value)
                      THEN [point |-> s[i], value |-> dist]
                      ELSE best)

\* a scan whose loop starts one element late
ScanLoopSkipFirst(method, s, t) == ScanFrom(method, s, t, 2, InitialBest)
\* the whole scan: return closest_point, min_dist
ScanLoop(method, s, t) == ScanFrom(method, s, t, 1, InitialBest)

find_closest_with_sqrt(s, t) == ScanLoop("find_closest_with_sqrt", s, t)
find_closest_with_squared(s, t) == ScanLoop("find_closest_with_squared", s, t)
find_closest_3d_with_sqrt(s, t) == ScanLoop("find_closest_3d_with_sqrt", s, t)
find_closest_3d_with_squared(s, t) ==
    ScanLoop("find_closest_3d_with_squared", s, t)
find_closest_3d_with_manhattan(s, t) ==
    ScanLoop("find_closest_3d_with_manhattan", s, t)

\* method_func(sources, target)
Call(method, s, t) ==
    CASE method = "find_closest_with_sqrt" -> find_closest_with_sqrt(s, t)
      [] method = "find_closest_with_squared" -> find_closest_with_squared(s, t)
      [] method = "find_closest_3d_with_sqrt" -> find_closest_3d_with_sqrt(s, t)
      [] method = "find_closest_3d_with_squared" ->
           find_closest_3d_with_squared(s, t)
      [] method = "find_closest_3d_with_manhattan" ->
           find_closest_3d_with_manhattan(s, t)

\* the strategies of each script, in the order the script calls them
Methods(sc) ==
    IF sc = "2d"
    THEN <<"find_closest_with_sqrt", "find_closest_with_squared">>
    ELSE <<"find_closest_3d_with_sqrt", "find_closest_3d_with_squared",
           "find_closest_3d_with_manhattan">>

-----------------------------------------------------------------------------
(* The statistics module, on exact rationals *)

RECURSIVE Gcd(_, _)
Gcd(a, b) == IF b = 0 THEN a ELSE Gcd(b, a % b)

\* the rational n/d (n >= 0, d > 0) in lowest terms
Rat(n, d) == LET g == Gcd(n, d) IN [num |-> n \div g, den |-> d \div g]

\* the literal 0
Zero == Rat(0, 1)

\* a raised exception, in place of a value
Raise(e) == [raised |-> e]
Raised(v) == "raised" \in DOMAIN v

RECURSIVE Sum(_)
Sum(data) == IF data = <<>> THEN 0 ELSE Head(data) + Sum(Tail(data))

RECURSIVE SumSquares(_)
SumSquares(data) ==
    IF data = <<>> THEN 0 ELSE Head(data) * Head(data) + SumSquares(Tail(data))

\* min(times), max(times): ValueError on an empty sequence
Min(data) ==
    IF data = <<>> THEN Raise("ValueError")
    ELSE LET m == CHOOSE x \in {data[i] : i \in 1..Len(data)} :
                      \A j \in 1..Len(data) : x <= data[j]
         IN  Rat(m, 1)
Max(data) ==
    IF data = <<>> THEN Raise("ValueError")
    ELSE LET m == CHOOSE x \in {data[i] : i \in 1..Len(data)} :
                      \A j \in 1..Len(data) : x >= data[j]
         IN  Rat(m, 1)

\* sorted(data)
RECURSIVE Insert(_, _)
Insert(x, sorted) ==
    IF sorted = <<>> THEN <<x>>
    ELSE IF x <= Head(sorted) THEN <<x>> \o sorted
    ELSE <<Head(sorted)>> \o Insert(x, Tail(sorted))
RECURSIVE Sorted(_)
Sorted(data) ==
    IF data = <<>> THEN <<>> ELSE Insert(Head(data), Sorted(Tail(data)))

\* statistics.mean: StatisticsError on an empty sample
statistics_mean(data) ==
    IF Len(data) < 1 THEN Raise("StatisticsError")
    ELSE Rat(Sum(data), Len(data))

\* statistics.median: the middle value, or the mean of the two middle values
statistics_median(data) ==
    LET n == Len(data)
        d == Sorted(data)
    IN  IF n = 0 THEN Raise("StatisticsError")
        ELSE IF n % 2 = 1 THEN Rat(d[(n + 1) \div 2], 1)
        ELSE Rat(d[n \div 2] + d[n \div 2 + 1], 2)

\* the real square root of a rational: a rational when numerator and
\* denominator are squares, else kept as the root of its radicand
RealSqrt(q) ==
    LET IsSquare(k) == \E r \in 0..k : r * r = k
        Root(k) == CHOOSE r \in 0..k : r * r = k
    IN  IF IsSquare(q.num) /\ IsSquare(q.den)
        THEN Rat(Root(q.num), Root(q.den))
        ELSE [sqrt_of |-> q]

\* statistics.stdev: the sample standard deviation, StatisticsError below
\* two data points.  sum((x - mean)^2) / (n - 1) = (n*sum(x^2) - sum(x)^2) / (n*(n - 1))
statistics_stdev(data) ==
    LET n == Len(data)
    IN  IF n < 2 THEN Raise("StatisticsError")
        ELSE RealSqrt(Rat(n * SumSquares(data) - Sum(data) * Sum(data),
                          n * (n - 1)))

-----------------------------------------------------------------------------
(* The timing harness *)

\* the std_dev entry with its guard off by one
std_dev_entry_unguarded(ts) ==
    IF Len(ts) > 0 THEN statistics_stdev(ts) ELSE Zero
\* statistics.stdev(times) if len(times) > 1 else 0
std_dev_entry(ts) == IF Len(ts) > 1 THEN statistics_stdev(ts) ELSE Zero

\* the dict benchmark_method / benchmark_3d_method returns, or the first
\* exception its entries raise, in their order of evaluation
benchmark_return(ts, rs) ==
    LET d == [times       |-> ts,
              mean_time   |-> statistics_mean(ts),
              median_time |-> statistics_median(ts),
              std_dev     |-> std_dev_entry(ts),
              min_time    |-> Min(ts),
              max_time    |-> Max(ts),
              results     |-> rs]
    IN  IF Raised(d.mean_time) THEN d.mean_time
        ELSE IF Raised(d.median_time) THEN d.median_time
        ELSE IF Raised(d.std_dev) THEN d.std_dev
        ELSE IF Raised(d.min_time) THEN d.min_time
        ELSE IF Raised(d.max_time) THEN d.max_time
        ELSE d

-----------------------------------------------------------------------------
(* Reporting *)

One == Rat(1, 1)

\* a / b on floats: ZeroDivisionError when b is 0
Divide(a, b) ==
    IF b.num = 0 THEN Raise("ZeroDivisionError")
    ELSE Rat(a.num * b.den, a.den * b.num)

\* ratio > 1
GreaterThanOne(r) == r.num > r.den

\* the "FASTER" line of one ratio: prints the ratio, or 1/ratio when the
\* ratio is not above 1
faster_line(ratio) == IF GreaterThanOne(ratio) THEN ratio ELSE Divide(One, ratio)

\* the block before the first print of an iteration
NoReport == [kind |-> "none"]

\* one iteration of run_comprehensive_benchmark after the two benchmarks:
\* the block it prints, or the exception that ends it
report_2d(st) ==
    LET sqrt_stats == st[1]
        squared_stats == st[2]
        sqrt_point == sqrt_stats.results[1].point
        squared_point == squared_stats.results[1].point
        points_match == sqrt_point = squared_point
        speed_ratio == Divide(sqrt_stats.mean_time, squared_stats.mean_time)
    IN  IF Raised(speed_ratio) THEN speed_ratio
        ELSE IF Raised(faster_line(speed_ratio)) THEN faster_line(speed_ratio)
        ELSE [kind |-> "2d", points_match |-> points_match,
              speed_ratio |-> speed_ratio]

\* one iteration of run_3d_benchmark after the three benchmarks
report_3d(st) ==
    LET sqrt_stats == st[1]
        squared_stats == st[2]
        manhattan_stats == st[3]
        sqrt_point == sqrt_stats.results[1].point
        squared_point == squared_stats.results[1].point
        manhattan_point == manhattan_stats.results[1].point
        euclidean_match == sqrt_point = squared_point
        sqrt_vs_squared ==
            Divide(sqrt_stats.mean_time, squared_stats.mean_time)
        sqrt_vs_manhattan ==
            Divide(sqrt_stats.mean_time, manhattan_stats.mean_time)
        squared_vs_manhattan ==
            Divide(squared_stats.mean_time, manhattan_stats.mean_time)
    IN  IF Raised(sqrt_vs_squared) THEN sqrt_vs_squared
        ELSE IF Raised(sqrt_vs_manhattan) THEN sqrt_vs_manhattan
        ELSE IF Raised(squared_vs_manhattan) THEN squared_vs_manhattan
        ELSE IF Raised(faster_line(sqrt_vs_squared))
             THEN faster_line(sqrt_vs_squared)
        ELSE IF Raised(faster_line(sqrt_vs_manhattan))
             THEN faster_line(sqrt_vs_manhattan)
        ELSE IF Raised(faster_line(squared_vs_manhattan))
             THEN faster_line(squared_vs_manhattan)
        ELSE [kind |-> "3d", euclidean_match |-> euclidean_match,
              manhattan_differs |-> sqrt_point # manhattan_point,
              sqrt_vs_squared |-> sqrt_vs_squared,
              sqrt_vs_manhattan |-> sqrt_vs_manhattan,
              squared_vs_manhattan |-> squared_vs_manhattan]

\* the quick single test that ends the 2D script
quick_single_test(s, t, time_sqrt, time_sq) ==
    LET closest_sqrt == find_closest_with_sqrt(s, t).point
        closest_sq == find_closest_with_squared(s, t).point
        ratio == Divide(Rat(time_sqrt, 1), Rat(time_sq, 1))
    IN  IF Raised(ratio) THEN ratio
        ELSE [kind |-> "quick", points_match |-> closest_sqrt = closest_sq,
              ratio |-> ratio]

-----------------------------------------------------------------------------
(* A script run: the benchmark loop, then (2D) the quick single test.      *)
(* The warm-up calls before it discard their results and change nothing.   *)
(* num_runs is the script's repetition count, here any count up to MaxRuns. *)

Init ==
    /\ script \in {"2d", "3d"}
    /\ pc = "generate"
    /\ num_runs \in 0..MaxRuns
    /\ num_points = 0
    /\ size_idx = 1
    /\ sources = <<>>
    /\ target = None
    /\ method_idx = 1
    /\ times = <<>>
    /\ results = <<>>
    /\ stats = <<>>
    /\ report = NoReport
    /\ error = "none"

\* for num_points in dataset_sizes: the header line and the generator call
GenerateData ==
    /\ pc = "generate"
    /\ \E g \in Generate(script, dataset_sizes[size_idx], NearCoords) :
          /\ sources' = g.sources
          /\ target' = g.target
    /\ num_points' = dataset_sizes[size_idx]
    /\ report' = NoReport
    /\ method_idx' = 1
    /\ times' = <<>>
    /\ results' = <<>>
    /\ pc' = "bench"
    /\ UNCHANGED <<script, num_runs, size_idx, stats, error>>

\* a harness whose method_func consumes the list it is handed
BenchRunConsuming ==
    /\ pc = "bench"
    /\ Len(times) < num_runs
    /\ \E elapsed \in Ticks : times' = Append(times, elapsed)
    /\ results' = Append(results,
                         Call(Methods(script)[method_idx], sources, target))
    /\ sources' = IF sources = <<>> THEN sources ELSE Tail(sources)
    /\ UNCHANGED <<script, pc, num_runs, num_points, size_idx, target,
                   method_idx, stats, report, error>>

\* a harness that records a result only for a run the clock saw
BenchRunDropping ==
    /\ pc = "bench"
    /\ Len(times) < num_runs
    /\ \E elapsed \in Ticks :
          /\ times' = Append(times, elapsed)
          /\ results' = IF elapsed = 0 THEN results
                        ELSE Append(results,
                                    Call(Methods(script)[method_idx],
                                         sources, target))
    /\ UNCHANGED <<script, pc, num_runs, num_points, size_idx, sources, target,
                   method_idx, stats, report, error>>

\* one pass of the harness loop: time one call of method_func
BenchRun ==
    /\ pc = "bench"
    /\ Len(times) < num_runs
    /\ \E elapsed \in Ticks : times' = Append(times, elapsed)
    /\ results' = Append(results,
                         Call(Methods(script)[method_idx], sources, target))
    /\ UNCHANGED <<script, pc, num_runs, num_points, size_idx, sources, target,
                   method_idx, stats, report, error>>

\* the harness loop is exhausted: build the dict and return it to the
\* script, which goes on to the next strategy or to the report
BenchReturn ==
    /\ pc = "bench"
    /\ Len(times) >= num_runs
    /\ LET d == benchmark_return(times, results)
       IN  IF Raised(d)
           THEN /\ error' = d.raised
                /\ pc' = "fault"
                /\ UNCHANGED <<stats, times, results, method_idx>>
           ELSE /\ stats' = Append(stats, d)
                /\ times' = <<>>
                /\ results' = <<>>
                /\ IF method_idx < Len(Methods(script))
                   THEN method_idx' = method_idx + 1 /\ pc' = "bench"
                   ELSE method_idx' = method_idx /\ pc' = "report"
                /\ error' = error
    /\ UNCHANGED <<script, num_runs, num_points, size_idx, sources, target,
                   report>>

\* the cross-check, the ratios and the printed block of one size, then on
\* to the next size.  The stats names are rebound by the next iteration
\* before anything reads them; the model drops them here.
Report ==
    /\ pc = "report"
    /\ LET r == IF script = "2d" THEN report_2d(stats) ELSE report_3d(stats)
       IN  IF Raised(r)
           THEN /\ error' = r.raised
                /\ pc' = "fault"
                /\ UNCHANGED <<report, stats, size_idx>>
           ELSE /\ report' = r
                /\ stats' = <<>>
                /\ IF size_idx < Len(dataset_sizes)
                   THEN size_idx' = size_idx + 1 /\ pc' = "generate"
                   ELSE /\ size_idx' = size_idx
                        /\ pc' = IF script = "2d" THEN "quick_generate"
                                 ELSE "done"
                /\ error' = error
    /\ UNCHANGED <<script, num_runs, num_points, sources, target, method_idx,
                   times, results>>

\* the 2D script's last section: fresh data of the first dataset size
QuickGenerate ==
    /\ pc = "quick_generate"
    /\ \E g \in Generate(script, dataset_sizes[1], NearCoords) :
          /\ sources' = g.sources
          /\ target' = g.target
    /\ num_points' = dataset_sizes[1]
    /\ report' = NoReport
    /\ pc' = "quick_run"
    /\ UNCHANGED <<script, num_runs, size_idx, method_idx, times, results,
                   stats, error>>

\* one timed call of each strategy and the single-run ratio
QuickRun ==
    /\ pc = "quick_run"
    /\ \E time_sqrt \in Ticks, time_sq \in Ticks :
          LET r == quick_single_test(sources, target, time_sqrt, time_sq)
          IN  IF Raised(r)
              THEN error' = r.raised /\ pc' = "fault" /\ report' = report
              ELSE error' = error /\ pc' = "done" /\ report' = r
    /\ UNCHANGED <<script, num_runs, num_points, size_idx, sources, target,
                   method_idx, times, results, stats>>

Next ==
    \/ GenerateData
    \/ BenchRun
    \/ BenchReturn
    \/ Report
    \/ QuickGenerate
    \/ QuickRun

Spec == Init /\ [][Next]_vars

-----------------------------------------------------------------------------
(* Direct calls: a generator called with any count from -1 to MaxPoints,   *)
(* coordinates over the whole grid, then each strategy of the script       *)
(* applied once to the generated list; results collects what they return.  *)

InitScan ==
    /\ script \in {"2d", "3d"}
    /\ pc = "call_generate"
    /\ num_runs = 0
    /\ num_points \in -1..MaxPoints
    /\ size_idx = 1
    /\ sources = <<>>
    /\ target = None
    /\ method_idx = 1
    /\ times = <<>>
    /\ results = <<>>
    /\ stats = <<>>
    /\ report = NoReport
    /\ error = "none"

\* sources, target = generate_test_data(num_points)
CallGenerate ==
    /\ pc = "call_generate"
    /\ \E g \in Generate(script, num_points, Coords) :
          /\ sources' = g.sources
          /\ target' = g.target
    /\ pc' = "call_scan"
    /\ UNCHANGED <<script, num_runs, num_points, size_idx, method_idx, times,
                   results, stats, report, error>>

\* the next strategy applied to (sources, target)
CallStrategy ==
    /\ pc = "call_scan"
    /\ method_idx <= Len(Methods(script))
    /\ results' = Append(results,
                         Call(Methods(script)[method_idx], sources, target))
    /\ method_idx' = method_idx + 1
    /\ UNCHANGED <<script, pc, num_runs, num_points, size_idx, sources, target,
                   times, stats, report, error>>

NextScan ==
    \/ CallGenerate
    \/ CallStrategy

SpecScan == InitScan /\ [][NextScan]_vars

-----------------------------------------------------------------------------
(* Properties of the direct calls (SpecScan) *)

\* the method whose return value is results[k]
MethodOf(k) == Methods(script)[k]
\* every strategy of the script has been applied to the generated list
AllScanned == pc = "call_scan" /\ Len(results) = Len(Methods(script))
\* the fixed target of the script's generator
FixedTarget == IF script = "2d" THEN <<Mid, Mid>> ELSE <<Mid, Mid, Mid>>

\* the metrics as the specification words them, for two or three axes
SquaredEuclidean(p, t) ==
    LET sq(i) == (p[i] - t[i]) * (p[i] - t[i])
    IN  IF Len(p) = 2 THEN sq(1) + sq(2) ELSE sq(1) + sq(2) + sq(3)
Manhattan(p, t) ==
    LET ad(i) == IF p[i] >= t[i] THEN p[i] - t[i] ELSE t[i] - p[i]
    IN  IF Len(p) = 2 THEN ad(1) + ad(2) ELSE ad(1) + ad(2) + ad(3)
Metric(method, p, t) ==
    IF method \in {"find_closest_with_squared", "find_closest_3d_with_squared"}
    THEN SquaredEuclidean(p, t)
    ELSE IF method = "find_closest_3d_with_manhattan" THEN Manhattan(p, t)
    ELSE Sqrt(SquaredEuclidean(p, t))

\* the first index of the list whose metric value is minimal
FirstMinimal(method) ==
    LET v == [i \in 1..Len(sources) |-> Metric(method, sources[i], target)]
    IN  CHOOSE i \in 1..Len(sources) :
            /\ \A j \in 1..Len(sources) : v[i] <= v[j]
            /\ \A j \in 1..(i - 1) : v[j] > v[i]

\* C1: on every non-empty point set the sqrt scan and the squared scan
\* return the same closest point.
C1_SqrtAndSquaredAgree ==
    (pc = "call_scan" /\ Len(results) >= 2 /\ sources # <<>>)
        => results[1].point = results[2].point

\* C2: in every strategy the point returned is the first point in scan
\* order among those of minimal metric value.
C2_FirstOfTiesWins ==
    (pc = "call_scan" /\ sources # <<>>)
        => \A k \in 1..Len(results) :
              results[k].point = sources[FirstMinimal(MethodOf(k))]

\* C2 witness: all strategies have run on a list where two different
\* points tie for the minimum of some strategy.
C2_Witness ==
    /\ AllScanned
    /\ \E k \in 1..Len(results) :
          \E i \in 1..Len(sources), j \in 1..Len(sources) :
              /\ i = FirstMinimal(MethodOf(k))
              /\ i < j
              /\ sources[i] # sources[j]
              /\ Metric(MethodOf(k), sources[i], target)
                    = Metric(MethodOf(k), sources[j], target)

\* C7: when the set holds a point equal to the target, every strategy
\* returns value 0 and a point equal to the target.
C7_TargetInSetIsFound ==
    (pc = "call_scan" /\ \E i \in 1..Len(sources) : sources[i] = target)
        => \A k \in 1..Len(results) :
              results[k].value = 0 /\ results[k].point = target

\* C7 witness: the three 3D strategies have run on a list whose second
\* point is the target and whose first is not.
C7_Witness ==
    /\ AllScanned
    /\ script = "3d"
    /\ Len(sources) >= 2
    /\ sources[1] # target
    /\ sources[2] = target

\* C8: for a count N <= 0 the generator gives the empty set with the fixed
\* target, and every strategy scanning it returns None with value infinity.
C8_NonPositiveCountGivesEmptySet ==
    (pc = "call_scan" /\ num_points <= 0)
        => /\ sources = <<>>
           /\ target = FixedTarget
           /\ \A k \in 1..Len(results) :
                 results[k] = [point |-> None, value |-> Inf]

\* C8 witness: the generator was called with -1 and every strategy has
\* scanned what it produced.
C8_Witness == AllScanned /\ num_points = -1 /\ Len(results) >= 2

\* C9: on a non-empty set each strategy returns (p, v) with p in the set,
\* v the strategy's metric of p, and v at most the metric of every point;
\* for a set of one point, p is that point.
C9_ReturnsAMinimiser ==
    (pc = "call_scan" /\ sources # <<>>)
        => \A k \in 1..Len(results) :
              /\ \E i \in 1..Len(sources) : results[k].point = sources[i]
              /\ results[k].value = Metric(MethodOf(k), results[k].point, target)
              /\ \A i \in 1..Len(sources) :
                    results[k].value <= Metric(MethodOf(k), sources[i], target)
              /\ Len(sources) = 1 => results[k].point = sources[1]

\* C9 witness: every strategy has run on a list of at least two points
\* whose first point is not a closest one.
C9_Witness ==
    /\ AllScanned
    /\ Len(sources) >= 2
    /\ \A k \in 1..Len(results) : results[k].point # sources[1]

-----------------------------------------------------------------------------
(* Properties of a script run (Spec) *)

\* C3: for R >= 1 the dict a harness call returns holds exactly R results,
\* all equal to one another, whatever the elapsed times.
C3_RepetitionsAgree ==
    num_runs >= 1
        => \A k \in 1..Len(stats) :
              /\ Len(stats[k].results) = num_runs
              /\ Len(stats[k].times) = num_runs
              /\ \A i \in 1..Len(stats[k].results) :
                    stats[k].results[i] = stats[k].results[1]

\* C3 witness: a harness call of two runs with different elapsed times on
\* a list of two points has returned.
C3_Witness ==
    /\ num_runs >= 2
    /\ Len(sources) = 2
    /\ Len(stats) >= 1
    /\ stats[1].times[1] # stats[1].times[2]

\* C4: with R = 1 the harness does not raise, std_dev is 0, and mean,
\* median, min and max all equal the single timing.
C4_SingleSample ==
    num_runs = 1
        => /\ error \notin {"StatisticsError", "ValueError"}
           /\ \A k \in 1..Len(stats) :
                 LET d == stats[k]
                     t == [num |-> d.times[1], den |-> 1]
                 IN  /\ Len(d.times) = 1
                     /\ d.std_dev = [num |-> 0, den |-> 1]
                     /\ d.mean_time = t
                     /\ d.median_time = t
                     /\ d.min_time = t
                     /\ d.max_time = t

\* C4 witness: a one-run harness call that measured one tick has returned.
C4_Witness ==
    /\ num_runs = 1
    /\ Len(stats) >= 1
    /\ stats[1].times = <<1>>

\* C5: with num_runs = 0 the harness call completes with a result and
\* does not end in an error.
C5_EmptySampleCompletes == num_runs = 0 => error = "none"

\* C6: with at least one run per test, a script run never ends in an
\* unhandled fault, whatever elapsed times the clock reports.
C6_NoUnhandledFault == num_runs >= 1 => (pc # "fault" /\ error = "none")

\* C10: within one dataset size the point set and target are generated
\* once and nothing changes them until the size's iteration ends.
C10_PointSetFrame ==
    [][ /\ pc \in {"bench", "report"}
            => sources' = sources /\ target' = target
        /\ pc = "generate"
            => pc' = "bench" /\ Len(sources') = dataset_sizes[size_idx]
        /\ pc' = "generate" => size_idx' = size_idx + 1 ]_vars

\* C10 witness: the second size's report is reached after every strategy
\* ran twice on its two-point set.
C10_Witness ==
    /\ pc = "report"
    /\ size_idx = 2
    /\ num_runs >= 2
    /\ Len(sources) = 2
    /\ Len(stats) = Len(Methods(script))

====
